---- MODULE Spec2Model ----
(***************************************************************************)
(* Model of the MxStylable interface (src/mx/mx-stylable.c): the pool of   *)
(* style-property GParamSpecs, and the per-object queue that batches       *)
(* style-notify emissions between freeze and thaw.                         *)
(*                                                                         *)
(* The GLib calls the file makes (g_param_spec_pool_*, g_type_*, and the   *)
(* gobjectnotifyqueue.c it #includes at line 48) are modelled by operators *)
(* that carry GLib's names; each is what the call does at the line of      *)
(* mx-stylable.c that makes it.  The queue is the one of GLib's            *)
(* gobject/gobjectnotifyqueue.c that removes duplicates when a pspec is    *)
(* added (g_slist_find); earlier releases remove them in the thaw, and     *)
(* hand the dispatcher the same set of pspecs.                             *)
(*                                                                         *)
(* Signal handlers are not part of the file: an emission is recorded in    *)
(* `emitted`, and nothing runs in response to it.                          *)
(***************************************************************************)
EXTENDS Integers, Sequences, FiniteSets, TLC

\* ---------------------------------------------------------------- bounds
\* deepest nesting of freezes explored per object
MaxFreeze == 2
\* most references that installs the pool refuses may leave behind, counted
\* over all GParamSpecs
MaxLeaked == 1
\* most tokens of a text an MxPadding is parsed from
MaxPadTokens == 5
\* longest text of arbitrary characters an MxPadding is parsed from
MaxRawLen == 4
\* most tokens after the url(...) of a text an MxBorderImage is parsed from
MaxEdgeTokens == 5

\* ------------------------------------------------------------ the universe
G_TYPE_INVALID == "G_TYPE_INVALID"
\* the interface type, G_TYPE_FROM_INTERFACE (g_iface)
MX_TYPE_STYLABLE == "MxStylable"
\* the instantiable types that implement the interface: Toggle derives from
\* Button, Button derives from Widget
ClassTypes == {"Widget", "Button", "Toggle"}
\* the types properties are installed for: Widget and Button install their
\* own, Toggle inherits, and the interface type is what base_finalize lists
OwnerTypes == {"Widget", "Button", MX_TYPE_STYLABLE}

g_type_parent(t) ==
  CASE t = "Toggle" -> "Button"
    [] t = "Button" -> "Widget"
    [] OTHER -> G_TYPE_INVALID

g_type_depth(t) ==
  CASE t = "Toggle" -> 3
    [] t = "Button" -> 2
    [] t = "Widget" -> 1
    [] t = MX_TYPE_STYLABLE -> 1
    [] OTHER -> 0

RECURSIVE Ancestors(_)
\* t and every type reached from it by g_type_parent
Ancestors(t) ==
  IF t = G_TYPE_INVALID THEN {} ELSE {t} \cup Ancestors(g_type_parent(t))

\* a class conforms to its ancestors and to the interface it implements
g_type_is_a(t, is_a) ==
  \/ is_a \in Ancestors(t)
  \/ t \in ClassTypes /\ is_a = MX_TYPE_STYLABLE

\* the GParamSpec objects a caller can create and pass in; NULL is 0
NULL == 0
PSpecs == 1..5
PropertyNames == {"x", "y"}

G_PARAM_READABLE == "READABLE"
G_PARAM_WRITABLE == "WRITABLE"
G_PARAM_CONSTRUCT == "CONSTRUCT"
G_PARAM_CONSTRUCT_ONLY == "CONSTRUCT_ONLY"

\* pspec->name: fixed when the GParamSpec is created
pspec_name(p) ==
  CASE p = 1 -> "x"
    [] p = 2 -> "x"
    [] p = 3 -> "y"
    [] p = 4 -> "y"
    [] OTHER -> "x"

\* pspec->flags: fixed when the GParamSpec is created
pspec_flags(p) ==
  CASE p = 1 -> {G_PARAM_READABLE, G_PARAM_WRITABLE}
    [] p = 2 -> {G_PARAM_READABLE, G_PARAM_WRITABLE}
    [] p = 3 -> {G_PARAM_READABLE}
    [] p = 4 -> {G_PARAM_WRITABLE}
    [] OTHER -> {G_PARAM_READABLE, G_PARAM_WRITABLE, G_PARAM_CONSTRUCT_ONLY}

\* the stylable objects and G_OBJECT_TYPE of each
Objects == {"o1", "o2"}
G_OBJECT_TYPE(o) == IF o = "o1" THEN "Toggle" ELSE "Widget"

VARIABLES
  pool,         \* style_property_spec_pool: the GParamSpecs in its hash table
  owner_type,   \* pspec->owner_type of every GParamSpec
  real_owner,   \* the quark_real_owner qdata of every GParamSpec
  ref_count,    \* pspec->ref_count
  floating,     \* whether the GParamSpec still has its floating reference
  nqueue,       \* per object: the GObjectNotifyQueue kept as object qdata
  emitted,      \* the signals the last call emitted, in order
  diag,         \* the diagnostic the last call reported, "none" if none
  last,         \* the last call: its name and arguments
  datalist,     \* per object: the MxStyle kept under each key of its GData
  priv_style,   \* per object: the MxStyle its own get_style/set_style keep
  style_ref_count, \* ref_count of every MxStyle (and of the other GObject)
  creator_ref,  \* whether the code that made the GObject still holds its reference
  effects,      \* what the last set_style did, step by step
  gvalue,       \* the GValue the last get_property was given, as it left it
  style_queries, \* the mx_style_get_property calls of the last get_property
  retval,       \* what the last get_default_value returned, "none" before one
  str,          \* the string a value is parsed from
  filename,     \* the file name mx_border_image_set_from_string is given
  dest          \* the GValue the parsed value is put in

vars == <<pool, owner_type, real_owner, ref_count, floating, nqueue,
          emitted, diag, last, datalist, priv_style, style_ref_count,
          creator_ref, effects, gvalue, style_queries, retval, str, filename,
          dest>>

parsing == <<str, filename, dest>>

styling == <<datalist, priv_style, style_ref_count, creator_ref, effects,
             gvalue, style_queries, retval>>

registry == <<pool, owner_type, real_owner, ref_count, floating>>

\* the MxStyle objects, and a GObject of another type
Styles == 1..2
NotAStyle == 3
GObjects == Styles \cup {NotAStyle}

\* line 116: the quark mx_stylable_set_style keeps the style under
quark_style == "mx-stylable-style-quark"
\* the keys of an object's GData that the file uses for the style: the one
\* of line 116, written at line 609, and the one read at line 575
DataKeys == {quark_style, "mx-stylable-style"}

\* a char * that is NULL
NullString == <<"(null)">>

\* a GValue nothing was put in yet
NoBoxed == [kind |-> "unset", uri |-> NullString,
            top |-> 0, right |-> 0, bottom |-> 0, left |-> 0]

\* lines 25 and 117: the MxPadding and the MxBorderImage that are { 0, }
ZeroBoxed(kind) == [NoBoxed EXCEPT !.kind = kind]

\* a GValue of no type: what gvalue holds before any get_property
NoValue == [g_type |-> "G_TYPE_INVALID", data |-> "none"]

\* g_datalist_id_get_data returns NULL: the object has no queue
NoQueue == [alloc |-> FALSE, freeze_count |-> 0, pspecs |-> <<>>, n_pspecs |-> 0]

NoOwnerName == "(null)"

InitButQueues ==
  /\ pool = {}
  /\ owner_type = [p \in PSpecs |-> G_TYPE_INVALID]
  /\ real_owner = [p \in PSpecs |-> NoOwnerName]
  /\ ref_count = [p \in PSpecs |-> 1]
  /\ floating = [p \in PSpecs |-> TRUE]
  /\ emitted = <<>>
  /\ diag = "none"
  /\ last = [op |-> "init", obj |-> "", pspec |-> NULL]
  /\ datalist = [o \in Objects |-> [k \in DataKeys |-> NULL]]
  /\ priv_style = [o \in Objects |-> NULL]
  /\ style_ref_count = [g \in GObjects |-> 1]
  /\ creator_ref = [g \in GObjects |-> TRUE]
  /\ effects = <<>>
  /\ gvalue = NoValue
  /\ style_queries = <<>>
  /\ retval = "none"

InitStylable ==
  /\ InitButQueues
  /\ nqueue = [o \in Objects |-> NoQueue]

Init ==
  /\ InitStylable
  /\ str = <<>>
  /\ filename = <<>>
  /\ dest = NoBoxed

\* a call of `op` on object `obj` (or on none) with GParamSpec `pspec`
Call(op, obj, pspec) == [op |-> op, obj |-> obj, pspec |-> pspec]

\* ------------------------------------------------------- the property pool
\* g_hash_table_lookup on the pool: the GParamSpec whose key (name,
\* owner_type) equals the one asked for, NULL if there is none
g_hash_table_lookup(param_name, owner) ==
  LET found == {p \in pool : pspec_name(p) = param_name /\ owner_type[p] = owner}
  IN  IF found = {} THEN NULL ELSE CHOOSE p \in found : TRUE

RECURSIVE param_spec_ht_lookup(_, _)
\* the walk of g_param_spec_pool_lookup with walk_ancestors TRUE: the exact
\* type first, then g_type_parent of it until the root is passed
param_spec_ht_lookup(param_name, owner) ==
  IF owner = G_TYPE_INVALID THEN NULL
  ELSE LET pspec == g_hash_table_lookup(param_name, owner)
       IN  IF pspec # NULL THEN pspec
           ELSE param_spec_ht_lookup(param_name, g_type_parent(owner))

\* a lookup that ignores walk_ancestors and tries the exact type only
g_param_spec_pool_lookup_exact(param_name, owner, walk_ancestors) ==
  g_hash_table_lookup(param_name, owner)

g_param_spec_pool_lookup(param_name, owner, walk_ancestors) ==
  IF walk_ancestors
    THEN param_spec_ht_lookup(param_name, owner)
    ELSE g_hash_table_lookup(param_name, owner)

\* the guards without the two tests of pspec->flags
InstallPreconditions_noFlags(owner, pspec) ==
  IF owner = G_TYPE_INVALID
    THEN "g_return_if_fail: owner_type != G_TYPE_INVALID"
    ELSE "none"

\* lines 309-314: the first g_return_if_fail guard of install_property that
\* fails, "none" if all hold
InstallPreconditions(owner, pspec) ==
  IF owner = G_TYPE_INVALID
    THEN "g_return_if_fail: owner_type != G_TYPE_INVALID"
  ELSE IF G_PARAM_READABLE \notin pspec_flags(pspec)
    THEN "g_return_if_fail: pspec->flags & G_PARAM_READABLE"
  ELSE IF pspec_flags(pspec) \cap {G_PARAM_CONSTRUCT_ONLY, G_PARAM_CONSTRUCT} # {}
    THEN "g_return_if_fail: !(pspec->flags & (G_PARAM_CONSTRUCT_ONLY | G_PARAM_CONSTRUCT))"
  ELSE "none"

\* an install that never looks for an earlier property of the name
InstallAlreadyContains_never(owner, pspec) == FALSE

\* lines 316-318: is a property of that name already installed for owner
InstallAlreadyContains(owner, pspec) ==
  g_param_spec_pool_lookup(pspec_name(pspec), owner, FALSE) # NULL

\* the name of the interface type stored in place of the owner's
InstallRealOwner_iface(owner) == MX_TYPE_STYLABLE

\* line 328: the name stored as the quark_real_owner qdata
InstallRealOwner(owner) == owner

\* g_param_spec_pool_insert accepts a GParamSpec that no pool owns yet
PoolInsertAccepts(owner, pspec) ==
  owner # G_TYPE_INVALID /\ owner_type[pspec] = G_TYPE_INVALID

\* the references on pspec beyond the one of its creator (while floating)
\* or the two an accepted install leaves (the sunk one and the pool's)
Leaked(pspec) ==
  IF floating[pspec] THEN 0
  ELSE IF pspec \in pool THEN ref_count[pspec] - 2
  ELSE ref_count[pspec]

RECURSIVE LeakedUpTo(_)
LeakedUpTo(n) == IF n = 0 THEN 0 ELSE Leaked(n) + LeakedUpTo(n - 1)

mx_stylable_iface_install_property(owner, pspec) ==
  /\ last' = Call("install_property", "", pspec)
  /\ ref_count[pspec] > 0
  /\ emitted' = <<>>
  /\ UNCHANGED <<nqueue, styling, parsing>>
  /\ IF InstallPreconditions(owner, pspec) # "none"
       THEN /\ diag' = InstallPreconditions(owner, pspec)
            /\ UNCHANGED registry
       ELSE IF InstallAlreadyContains(owner, pspec)
       THEN /\ diag' = "g_warning: already contains a style property"
            /\ UNCHANGED registry
       ELSE \* g_param_spec_ref_sink, g_param_spec_set_qdata_full, then
            \* g_param_spec_pool_insert
            /\ PoolInsertAccepts(owner, pspec) \/ LeakedUpTo(5) < MaxLeaked
            /\ floating' = [floating EXCEPT ![pspec] = FALSE]
            /\ real_owner' = [real_owner EXCEPT ![pspec] = InstallRealOwner(owner)]
            /\ IF PoolInsertAccepts(owner, pspec)
                 THEN /\ owner_type' = [owner_type EXCEPT ![pspec] = owner]
                      /\ pool' = pool \cup {pspec}
                      /\ ref_count' = [ref_count EXCEPT ![pspec] =
                            (IF floating[pspec] THEN @ ELSE @ + 1) + 1]
                      /\ diag' = "none"
                 ELSE /\ ref_count' = [ref_count EXCEPT ![pspec] =
                            IF floating[pspec] THEN @ ELSE @ + 1]
                      /\ diag' = "g_return_if_fail: pspec->owner_type == 0"
                      /\ UNCHANGED <<owner_type, pool>>

\* line 90: g_param_spec_pool_list_owned for the type of the interface
FinalizeOwned == {p \in pool : owner_type[p] = MX_TYPE_STYLABLE}

\* base_finalize of the interface vtable of class `class`
mx_stylable_base_finalize(class) ==
  /\ last' = Call("base_finalize", "", NULL)
  /\ emitted' = <<>>
  /\ diag' = "none"
  /\ pool' = pool \ FinalizeOwned
  /\ ref_count' = [p \in PSpecs |->
                     IF p \in FinalizeOwned THEN ref_count[p] - 2 ELSE ref_count[p]]
  /\ UNCHANGED <<owner_type, real_owner, floating, nqueue, styling, parsing>>

\* mx_stylable_find_property of an object of type objtype
mx_stylable_find_property(objtype, property_name) ==
  g_param_spec_pool_lookup(property_name, objtype, TRUE)

\* strcmp (a, b) < 0 on the property names
NameBefore(a, b) == a = "x" /\ b = "y"

\* pspec_compare_id: the order g_param_spec_pool_list sorts a depth by (the
\* param_id of every style property is 0, so the names decide; equal names
\* are kept in the order of the GParamSpec numbers)
pspec_compare_id(a, b) ==
  \/ NameBefore(pspec_name(a), pspec_name(b))
  \/ pspec_name(a) = pspec_name(b) /\ a < b

RECURSIVE SetToSeq(_)
SetToSeq(set) ==
  IF set = {} THEN <<>>
  ELSE LET e == CHOOSE x \in set : TRUE IN <<e>> \o SetToSeq(set \ {e})

\* pool_depth_list: the slot of the list of lists a pspec of the pool goes
\* to for owner: none (0) if owner is not a pspec->owner_type, the first if
\* pspec->owner_type is an interface, else the depth of pspec->owner_type
pool_depth_list(owner, pspec) ==
  IF ~g_type_is_a(owner, owner_type[pspec]) THEN 0
  ELSE IF owner_type[pspec] = MX_TYPE_STYLABLE THEN 1
  ELSE g_type_depth(owner_type[pspec])

\* a list that keeps the overridden pspecs
ListKeeps_all(owner, pspec) == TRUE

\* pspec_list_remove_overridden_and_redirected: a pspec stays in the list
\* if the ancestor-walking lookup of its name from owner finds it
ListKeeps(owner, pspec) ==
  param_spec_ht_lookup(pspec_name(pspec), owner) = pspec

RECURSIVE ListDepths(_, _)
\* the lists of depths 1..d, each sorted and filtered, one after the other
ListDepths(owner, d) ==
  IF d = 0 THEN <<>>
  ELSE ListDepths(owner, d - 1) \o
       SelectSeq(SortSeq(SetToSeq({p \in pool : pool_depth_list(owner, p) = d}),
                         pspec_compare_id),
                 LAMBDA p : ListKeeps(owner, p))

\* g_param_spec_pool_list: the array and the count stored through n
g_param_spec_pool_list(owner) ==
  LET d == g_type_depth(owner)
      kept == {p \in pool : pool_depth_list(owner, p) \in 1..d /\ ListKeeps(owner, p)}
  IN  [pspecs |-> ListDepths(owner, d), n |-> Cardinality(kept)]

\* mx_stylable_list_properties of an object of type objtype
mx_stylable_list_properties(objtype) == g_param_spec_pool_list(objtype)

\* ------------------------------------------------------- the notify queue
\* the freeze_count and n_pspecs limit of gobjectnotifyqueue.c
G_MAXUINT16 == 65535

\* a freeze without the test for 65535: the guint16 freeze_count wraps
g_object_notify_queue_freeze_wrap(q) ==
  LET nq == IF q.alloc THEN q ELSE [NoQueue EXCEPT !.alloc = TRUE]
  IN  [nq EXCEPT !.freeze_count = (@ + 1) % (G_MAXUINT16 + 1)]

\* g_object_notify_queue_freeze: the object's queue, made if it has none,
\* with one more freeze unless it has 65535 already
g_object_notify_queue_freeze(q) ==
  LET nq == IF q.alloc THEN q ELSE [NoQueue EXCEPT !.alloc = TRUE]
  IN  IF nq.freeze_count >= G_MAXUINT16 THEN nq
      ELSE [nq EXCEPT !.freeze_count = @ + 1]

\* a g_slist_find that never finds: every notify is prepended again
g_slist_find_never(list, data) == FALSE

\* g_slist_find
g_slist_find(list, data) == \E i \in 1..Len(list) : list[i] = data

\* an add that keeps the new pspec alone
g_object_notify_queue_add_replace(q, pspec) ==
  IF G_PARAM_READABLE \in pspec_flags(pspec)
       /\ q.n_pspecs < G_MAXUINT16
       /\ ~g_slist_find(q.pspecs, pspec)
    THEN [q EXCEPT !.pspecs = <<pspec>>, !.n_pspecs = 1]
    ELSE q

\* g_object_notify_queue_add: a readable pspec not yet in the list is
\* prepended to it
g_object_notify_queue_add(q, pspec) ==
  IF G_PARAM_READABLE \in pspec_flags(pspec)
       /\ q.n_pspecs < G_MAXUINT16
       /\ ~g_slist_find(q.pspecs, pspec)
    THEN [q EXCEPT !.pspecs = <<pspec>> \o @, !.n_pspecs = @ + 1]
    ELSE q

\* a thaw that hands the pspecs to the dispatcher at every level of nesting
g_object_notify_queue_thaw_eager(q) ==
  IF q.freeze_count = 0
    THEN [queue |-> q, pspecs |-> <<>>]
    ELSE IF q.freeze_count - 1 # 0
    THEN [queue |-> [q EXCEPT !.freeze_count = @ - 1, !.pspecs = <<>>, !.n_pspecs = 0],
          pspecs |-> q.pspecs]
    ELSE [queue |-> NoQueue, pspecs |-> q.pspecs]

\* g_object_notify_queue_thaw: one freeze less; at zero the queue is taken
\* off the object and its pspecs are handed to the dispatcher
g_object_notify_queue_thaw(q) ==
  IF q.freeze_count = 0
    THEN [queue |-> q, pspecs |-> <<>>]
    ELSE IF q.freeze_count - 1 # 0
    THEN [queue |-> [q EXCEPT !.freeze_count = @ - 1], pspecs |-> <<>>]
    ELSE [queue |-> NoQueue, pspecs |-> q.pspecs]

\* a dispatcher whose loop starts at the second entry
mx_stylable_notify_dispatcher_from1(gobject, pspecs) ==
  [i \in 1..(Len(pspecs) - 1) |->
     [signal |-> "style-notify", obj |-> gobject,
      detail |-> pspec_name(pspecs[i + 1]), pspec |-> pspecs[i + 1]]]

\* mx_stylable_notify_dispatcher: one style-notify per entry, detailed by
\* the name of the pspec and carrying the pspec
mx_stylable_notify_dispatcher(gobject, pspecs) ==
  [i \in 1..Len(pspecs) |->
     [signal |-> "style-notify", obj |-> gobject,
      detail |-> pspec_name(pspecs[i]), pspec |-> pspecs[i]]]

\* the g_critical of g_object_notify_queue_freeze on a queue that has
\* 65535 freezes, "none" on another
FreezeDiag(q) ==
  IF q.alloc /\ q.freeze_count >= G_MAXUINT16
    THEN "g_critical: Free queue is larger than 65535"
    ELSE "none"

mx_stylable_freeze_notify(stylable) ==
  /\ \/ nqueue[stylable].freeze_count < MaxFreeze
     \/ nqueue[stylable].freeze_count >= G_MAXUINT16 - 1
  /\ last' = Call("freeze_notify", stylable, NULL)
  /\ nqueue' = [nqueue EXCEPT ![stylable] = g_object_notify_queue_freeze(@)]
  /\ emitted' = <<>>
  /\ diag' = FreezeDiag(nqueue[stylable])
  /\ UNCHANGED <<registry, styling, parsing>>

\* the test without its `!nqueue` half
ThawNotFrozen_countOnly(q) == q.alloc /\ q.freeze_count = 0

\* line 223: the test that sends thaw_notify to its warning
ThawNotFrozen(q) == ~q.alloc \/ q.freeze_count = 0

\* a thaw_notify whose last thaw leaves the dispatched pspecs in the queue
mx_stylable_thaw_notify_keep(stylable) ==
  /\ last' = Call("thaw_notify", stylable, NULL)
  /\ UNCHANGED <<registry, styling, parsing>>
  /\ IF ThawNotFrozen(nqueue[stylable])
       THEN /\ diag' = "g_warning: not frozen"
            /\ emitted' = <<>>
            /\ UNCHANGED nqueue
       ELSE LET thawed == g_object_notify_queue_thaw(nqueue[stylable])
            IN  /\ nqueue' = [nqueue EXCEPT ![stylable] =
                                IF thawed.queue.alloc
                                  THEN thawed.queue
                                  ELSE [nqueue[stylable] EXCEPT !.freeze_count = 0]]
                /\ emitted' = mx_stylable_notify_dispatcher(stylable, thawed.pspecs)
                /\ diag' = "none"

mx_stylable_thaw_notify(stylable) ==
  /\ last' = Call("thaw_notify", stylable, NULL)
  /\ UNCHANGED <<registry, styling, parsing>>
  /\ IF ThawNotFrozen(nqueue[stylable])
       THEN /\ diag' = "g_warning: not frozen"
            /\ emitted' = <<>>
            /\ UNCHANGED nqueue
       ELSE LET thawed == g_object_notify_queue_thaw(nqueue[stylable])
            IN  /\ nqueue' = [nqueue EXCEPT ![stylable] = thawed.queue]
                /\ emitted' = mx_stylable_notify_dispatcher(stylable, thawed.pspecs)
                /\ diag' = "none"

\* lines 243-246: the pspec mx_stylable_notify looks up
NotifyLookup(stylable, property_name) ==
  g_param_spec_pool_lookup(property_name, G_OBJECT_TYPE(stylable), TRUE)

\* a notify that freezes before it looks the property up, and leaves
\* without the thaw when there is none
mx_stylable_notify_freezeFirst(stylable, property_name) ==
  LET pspec == NotifyLookup(stylable, property_name)
  IN  /\ last' = Call("notify", stylable, pspec)
      /\ UNCHANGED <<registry, styling, parsing>>
      /\ IF pspec = NULL
           THEN /\ diag' = "g_warning: no style property"
                /\ emitted' = <<>>
                /\ nqueue' = [nqueue EXCEPT ![stylable] =
                                g_object_notify_queue_freeze(@)]
           ELSE LET frozen == g_object_notify_queue_freeze(nqueue[stylable])
                    added == g_object_notify_queue_add(frozen, pspec)
                    thawed == g_object_notify_queue_thaw(added)
                IN  /\ nqueue' = [nqueue EXCEPT ![stylable] = thawed.queue]
                    /\ emitted' = mx_stylable_notify_dispatcher(stylable, thawed.pspecs)
                    /\ diag' = "none"

mx_stylable_notify(stylable, property_name) ==
  LET pspec == NotifyLookup(stylable, property_name)
  IN  /\ last' = Call("notify", stylable, pspec)
      /\ UNCHANGED <<registry, styling, parsing>>
      /\ IF pspec = NULL
           THEN /\ diag' = "g_warning: no style property"
                /\ emitted' = <<>>
                /\ UNCHANGED nqueue
           ELSE LET frozen == g_object_notify_queue_freeze(nqueue[stylable])
                    added == g_object_notify_queue_add(frozen, pspec)
                    thawed == g_object_notify_queue_thaw(added)
                IN  /\ nqueue' = [nqueue EXCEPT ![stylable] = thawed.queue]
                    /\ emitted' = mx_stylable_notify_dispatcher(stylable, thawed.pspecs)
                    /\ diag' = FreezeDiag(nqueue[stylable])

\* ------------------------------------------------------ the attached style
\* a type check that lets every pointer through
MX_IS_STYLE_any(style) == TRUE

\* line 598: MX_IS_STYLE (style)
MX_IS_STYLE(style) == style \in Styles

\* lines 572 and 606: whether the MxStylableIface of the object's class sets
\* get_style and set_style; the class of o1 does, the class of o2 leaves
\* both to the defaults of the file
HasStyleVfuncs(stylable) == G_OBJECT_TYPE(stylable) = "Toggle"

\* iface->get_style of a class that keeps the style itself
iface_get_style(stylable) == priv_style[stylable]

\* g_object_get_data: the data of the object's GData under the key
g_object_get_data(object, key) == datalist[object][key]

\* mx_stylable_get_style
mx_stylable_get_style(stylable) ==
  IF HasStyleVfuncs(stylable)
    THEN iface_get_style(stylable)
    ELSE g_object_get_data(stylable, "mx-stylable-style")

\* g_object_ref on the counts refs; on NULL it reports and does nothing
g_object_ref(refs, object) ==
  IF object = NULL THEN refs ELSE [refs EXCEPT ![object] = @ + 1]

\* g_object_unref on the counts refs; on NULL it reports and does nothing
g_object_unref(refs, object) ==
  IF object = NULL \/ refs[object] = 0 THEN refs
  ELSE [refs EXCEPT ![object] = @ - 1]

\* a g_object_ref_sink that takes the caller's reference over
g_object_ref_sink_steal(refs, object) == refs

\* line 611: g_object_ref_sink of an MxStyle, a GObject that never floats:
\* one more reference
g_object_ref_sink(refs, object) == g_object_ref(refs, object)

\* one step of a call: what it did, to which GObject, what a signal handed
\* to its handlers, and the reference counts once the step was done
Step(step, object, args, refs) ==
  [step |-> step, style |-> object, args |-> args, refs |-> refs]

\* line 150: the number of parameters style-changed is registered with
style_changed_n_params == 0

\* lines 143-150,615: the arguments g_signal_emit collects for the handlers
\* of style-changed, as many of those passed as the signal has parameters
style_changed_args(passed) == SubSeq(passed, 1, style_changed_n_params)

\* lines 609-612: the default set_style; g_object_set_qdata_full stores the
\* style and calls the GDestroyNotify of the data it replaces
default_set_style(stylable, style, refs) ==
  LET replaced == g_object_get_data(stylable, quark_style)
      sunk == g_object_ref_sink(refs, style)
      destroyed == g_object_unref(sunk, replaced)
  IN  [steps |-> <<Step("g_object_ref_sink", style, <<>>, sunk)>>
                 \o (IF replaced = NULL THEN <<>>
                     ELSE <<Step("g_object_unref", replaced, <<>>, destroyed)>>),
       refs |-> destroyed]

\* iface->set_style of a class that keeps the style itself: it takes a
\* reference on the new style and drops the one on the style it kept
iface_set_style(stylable, style, refs) ==
  LET kept == priv_style[stylable]
      taken == g_object_ref(refs, style)
      dropped == g_object_unref(taken, kept)
  IN  [steps |-> <<Step("g_object_ref", style, <<>>, taken)>>
                 \o (IF kept = NULL THEN <<>>
                     ELSE <<Step("g_object_unref", kept, <<>>, dropped)>>),
       refs |-> dropped]

\* the style the object holds a reference on for itself
StoredStyle(stylable) ==
  IF HasStyleVfuncs(stylable) THEN priv_style[stylable]
  ELSE datalist[stylable][quark_style]

mx_stylable_set_style(stylable, style) ==
  /\ last' = Call("set_style", stylable, style)
  /\ style \in GObjects => style_ref_count[style] > 0
  /\ UNCHANGED <<registry, nqueue, creator_ref, gvalue, style_queries, retval,
                 parsing>>
  /\ IF ~MX_IS_STYLE(style)
       THEN /\ diag' = "g_return_if_fail: MX_IS_STYLE (style)"
            /\ emitted' = <<>>
            /\ effects' = <<>>
            /\ UNCHANGED <<datalist, priv_style, style_ref_count>>
       ELSE LET old_style == mx_stylable_get_style(stylable)
                kept == g_object_ref(style_ref_count, old_style)
                set == IF HasStyleVfuncs(stylable)
                         THEN iface_set_style(stylable, style, kept)
                         ELSE default_set_style(stylable, style, kept)
                released == g_object_unref(set.refs, old_style)
            IN  /\ IF HasStyleVfuncs(stylable)
                     THEN /\ priv_style' = [priv_style EXCEPT ![stylable] = style]
                          /\ UNCHANGED datalist
                     ELSE /\ datalist' = [datalist EXCEPT ![stylable][quark_style] = style]
                          /\ UNCHANGED priv_style
                /\ style_ref_count' = released
                /\ effects' =
                     <<Step("g_object_ref", old_style, <<>>, kept)>>
                     \o set.steps
                     \o <<Step("g_signal_emit style-changed", NULL,
                               style_changed_args(<<old_style>>), set.refs),
                          Step("g_object_unref", old_style, <<>>, released),
                          Step("g_object_notify style", NULL, <<>>, released)>>
                /\ emitted' =
                     <<[signal |-> "style-changed", obj |-> stylable,
                        detail |-> "", pspec |-> NULL],
                       [signal |-> "notify", obj |-> stylable,
                        detail |-> "style", pspec |-> NULL]>>
                /\ diag' = IF old_style = NULL
                             THEN "g_return_if_fail: G_IS_OBJECT (object)"
                             ELSE "none"

\* lines 585-586: the code that made a style and gave it to a stylable
\* drops its own reference
creator_unref(style) ==
  /\ creator_ref[style]
  /\ style_ref_count[style] > 0
  /\ last' = Call("creator_unref", "", style)
  /\ creator_ref' = [creator_ref EXCEPT ![style] = FALSE]
  /\ style_ref_count' = g_object_unref(style_ref_count, style)
  /\ emitted' = <<>>
  /\ diag' = "none"
  /\ effects' = <<>>
  /\ UNCHANGED <<registry, nqueue, datalist, priv_style, gvalue, style_queries,
                 retval, parsing>>

\* a changed that goes through the notify queue: nothing while frozen
mx_stylable_changed_queued(stylable) ==
  /\ last' = Call("changed", stylable, NULL)
  /\ emitted' = IF nqueue[stylable].freeze_count > 0 THEN <<>>
                ELSE <<[signal |-> "stylable-changed", obj |-> stylable,
                        detail |-> "", pspec |-> NULL]>>
  /\ diag' = "none"
  /\ UNCHANGED <<registry, nqueue, styling, parsing>>

mx_stylable_changed(stylable) ==
  /\ last' = Call("changed", stylable, NULL)
  /\ emitted' = <<[signal |-> "stylable-changed", obj |-> stylable,
                   detail |-> "", pspec |-> NULL]>>
  /\ diag' = "none"
  /\ UNCHANGED <<registry, nqueue, styling, parsing>>

\* the GTypes of the values of style properties
ValueTypes == {"gint", "gchararray"}

\* G_PARAM_SPEC_VALUE_TYPE
G_PARAM_SPEC_VALUE_TYPE(pspec) ==
  IF pspec \in {2, 5} THEN "gchararray" ELSE "gint"

\* line 401: g_value_reset, the zero of the type of the value
g_value_reset(value) == [value EXCEPT !.data = "zero"]

\* mx_style_get_property: the data the style may put in real_value, the
\* one it has for the property or the default of the pspec
mx_style_get_property(style, stylable, pspec) == {"styled", "default"}

\* a test for the style that always goes on to the style
NoStyle_never(style) == FALSE

\* line 399: !style
NoStyle(style) == style = NULL

\* line 449: G_VALUE_TYPE (value) != G_PARAM_SPEC_VALUE_TYPE (pspec)
ValueTypeDiffers(value, pspec) == value.g_type # G_PARAM_SPEC_VALUE_TYPE(pspec)

\* mx_stylable_get_property with a GValue of type value_type that holds
\* what its caller left in it; mx_stylable_get_property_internal is the last
\* branch
mx_stylable_get_property(stylable, property_name, value_type) ==
  LET pspec == mx_stylable_find_property(G_OBJECT_TYPE(stylable), property_name)
      value == [g_type |-> value_type, data |-> "caller"]
      style == mx_stylable_get_style(stylable)
  IN  /\ last' = Call("get_property", stylable, pspec)
      /\ emitted' = <<>>
      /\ UNCHANGED <<registry, nqueue, datalist, priv_style, style_ref_count,
                     creator_ref, effects, retval, parsing>>
      /\ IF pspec = NULL
           THEN /\ diag' = "g_warning: doesn't have a property named"
                /\ gvalue' = value
                /\ style_queries' = <<>>
           ELSE IF G_PARAM_READABLE \notin pspec_flags(pspec)
           THEN /\ diag' = "g_warning: is not readable"
                /\ gvalue' = value
                /\ style_queries' = <<>>
           ELSE IF ValueTypeDiffers(value, pspec)
           THEN /\ diag' = "g_warning: Passed value is not of the requested type"
                /\ gvalue' = value
                /\ style_queries' = <<>>
           ELSE IF NoStyle(style)
           THEN /\ diag' = "none"
                /\ gvalue' = g_value_reset(value)
                /\ style_queries' = <<>>
           ELSE /\ diag' = "none"
                /\ \E data \in mx_style_get_property(style, stylable, pspec) :
                     gvalue' = [value EXCEPT !.data = data]
                /\ style_queries' = <<[style |-> style, pspec |-> pspec]>>

\* g_value_init: a zero-filled GValue becomes the zero of the type; one that
\* has a type already is reported and left as it is
g_value_init(value, g_type) ==
  IF value.g_type = "G_TYPE_INVALID"
    THEN [g_type |-> g_type, data |-> "zero"]
    ELSE value

\* g_param_value_set_default: the default of the pspec in a value of its
\* type; a value of another type is reported and left as it is
g_param_value_set_default(pspec, value) ==
  IF value.g_type = G_PARAM_SPEC_VALUE_TYPE(pspec)
    THEN [value EXCEPT !.data = "default"]
    ELSE value

\* mx_stylable_get_default_value with a value_out that is zero-filled
\* (value_type is G_TYPE_INVALID) or that its caller has given a type
mx_stylable_get_default_value(stylable, property_name, value_type) ==
  LET pspec == mx_stylable_find_property(G_OBJECT_TYPE(stylable), property_name)
      value_out == IF value_type = "G_TYPE_INVALID"
                     THEN NoValue
                     ELSE [g_type |-> value_type, data |-> "caller"]
  IN  /\ last' = Call("get_default_value", stylable, pspec)
      /\ emitted' = <<>>
      /\ style_queries' = <<>>
      /\ UNCHANGED <<registry, nqueue, datalist, priv_style, style_ref_count,
                     creator_ref, effects, parsing>>
      /\ IF pspec = NULL
           THEN /\ diag' = "g_warning: no style property named"
                /\ gvalue' = value_out
                /\ retval' = FALSE
           ELSE IF G_PARAM_READABLE \notin pspec_flags(pspec)
           THEN /\ diag' = "g_warning: is not readable"
                /\ gvalue' = value_out
                /\ retval' = FALSE
           ELSE /\ diag' = IF value_out.g_type = "G_TYPE_INVALID"
                             THEN "none"
                             ELSE "g_critical: cannot initialize GValue"
                /\ gvalue' = g_param_value_set_default(pspec,
                               g_value_init(value_out, G_PARAM_SPEC_VALUE_TYPE(pspec)))
                /\ retval' = TRUE

\* ------------------------------------------- the values parsed from strings
\* (src/mx/mx-types.c)  A C string is the sequence of its characters.
\* isspace
SpaceChars == {" ", "\t", "\n"}
DigitChars == {"0", "1", "2", "3", "4", "5", "6", "7", "8", "9"}

DigitValue(c) ==
  CASE c = "0" -> 0 [] c = "1" -> 1 [] c = "2" -> 2 [] c = "3" -> 3
    [] c = "4" -> 4 [] c = "5" -> 5 [] c = "6" -> 6 [] c = "7" -> 7
    [] c = "8" -> 8 [] c = "9" -> 9

RECURSIVE SkipSpaces(_)
SkipSpaces(s) ==
  IF s # <<>> /\ Head(s) \in SpaceChars THEN SkipSpaces(Tail(s)) ELSE s

RECURSIVE DigitsValue(_, _)
DigitsValue(s, acc) ==
  IF s = <<>> \/ Head(s) \notin DigitChars THEN acc
  ELSE DigitsValue(Tail(s), acc * 10 + DigitValue(Head(s)))

\* atoi: leading white space, a sign, then the digits up to the first
\* character that is none; 0 if there is no digit
atoi(nptr) ==
  LET s == SkipSpaces(nptr)
      signed == s # <<>> /\ Head(s) \in {"-", "+"}
      digits == IF signed THEN Tail(s) ELSE s
  IN  IF signed /\ Head(s) = "-" THEN 0 - DigitsValue(digits, 0)
      ELSE DigitsValue(digits, 0)

\* the tokens of s between the characters of delimiters, token being the
\* one that the characters read so far have begun
RECURSIVE SplitAt(_, _, _)
SplitAt(s, delimiters, token) ==
  IF s = <<>> THEN <<token>>
  ELSE IF Head(s) \in delimiters
    THEN <<token>> \o SplitAt(Tail(s), delimiters, <<>>)
    ELSE SplitAt(Tail(s), delimiters, Append(token, Head(s)))

\* g_strsplit with a delimiter of one character: a token between every two
\* delimiters, empty ones too; no token at all for the empty string
g_strsplit(string, delimiter) ==
  IF string = <<>> THEN <<>> ELSE SplitAt(string, {delimiter}, <<>>)

\* g_strsplit_set
g_strsplit_set(string, delimiters) ==
  IF string = <<>> THEN <<>> ELSE SplitAt(string, delimiters, <<>>)

\* a switch whose case 3 gives the third token to left
PaddingSwitch_case3(strv) ==
  LET padding == ZeroBoxed("MxPadding")
  IN  CASE Len(strv) = 1 ->
             [padding EXCEPT !.top = atoi(strv[1]), !.right = atoi(strv[1]),
                             !.bottom = atoi(strv[1]), !.left = atoi(strv[1])]
        [] Len(strv) = 2 ->
             [padding EXCEPT !.top = atoi(strv[1]), !.bottom = atoi(strv[1]),
                             !.left = atoi(strv[2]), !.right = atoi(strv[2])]
        [] Len(strv) = 3 ->
             [padding EXCEPT !.top = atoi(strv[1]), !.right = atoi(strv[2]),
                             !.bottom = atoi(strv[2]), !.left = atoi(strv[3])]
        [] Len(strv) = 4 ->
             [padding EXCEPT !.top = atoi(strv[1]), !.right = atoi(strv[2]),
                             !.bottom = atoi(strv[3]), !.left = atoi(strv[4])]
        [] OTHER -> padding

\* lines 41-65: the switch on g_strv_length
PaddingSwitch(strv) ==
  LET padding == ZeroBoxed("MxPadding")
  IN  CASE Len(strv) = 1 ->
             [padding EXCEPT !.top = atoi(strv[1]), !.right = atoi(strv[1]),
                             !.bottom = atoi(strv[1]), !.left = atoi(strv[1])]
        [] Len(strv) = 2 ->
             [padding EXCEPT !.top = atoi(strv[1]), !.bottom = atoi(strv[1]),
                             !.left = atoi(strv[2]), !.right = atoi(strv[2])]
        [] Len(strv) = 3 ->
             [padding EXCEPT !.top = atoi(strv[1]), !.right = atoi(strv[2]),
                             !.left = atoi(strv[2]), !.bottom = atoi(strv[3])]
        [] Len(strv) = 4 ->
             [padding EXCEPT !.top = atoi(strv[1]), !.right = atoi(strv[2]),
                             !.bottom = atoi(strv[3]), !.left = atoi(strv[4])]
        [] OTHER -> padding

\* lines 27-67: the MxPadding that mx_padding_from_string puts in dest
PaddingFromString(string) ==
  IF string = NullString THEN ZeroBoxed("MxPadding")
  ELSE PaddingSwitch(g_strsplit(string, " "))

\* the transform of a string GValue into an MxPadding GValue
mx_padding_from_string ==
  /\ dest.kind = "unset"
  /\ last' = Call("padding_from_string", "", NULL)
  /\ dest' = PaddingFromString(str)
  /\ diag' = "none"
  /\ emitted' = <<>>
  /\ UNCHANGED <<registry, nqueue, styling, str, filename>>

\* strrchr (file_name, '/'): the index of the last '/', 0 if there is none
RECURSIVE strrchr_slash(_, _)
strrchr_slash(file_name, i) ==
  IF i = 0 THEN 0
  ELSE IF file_name[i] = "/" THEN i
  ELSE strrchr_slash(file_name, i - 1)

\* the loop of g_path_get_dirname that steps back over '/' characters, but
\* not past the first character
RECURSIVE BackOverSlashes(_, _)
BackOverSlashes(file_name, base) ==
  IF base > 1 /\ file_name[base] = "/"
    THEN BackOverSlashes(file_name, base - 1)
    ELSE base

\* a dirname that gives the file name back
g_path_get_dirname_whole(file_name) == file_name

\* g_path_get_dirname: "." without a '/', else what is before the last '/'
\* and the '/' characters in front of it
g_path_get_dirname(file_name) ==
  LET base == strrchr_slash(file_name, Len(file_name))
  IN  IF base = 0 THEN <<".">>
      ELSE SubSeq(file_name, 1, BackOverSlashes(file_name, base))

\* a test for an absolute path that looks at the token before the path
PathIsAbsolute_token1(strv) == strv[2] # <<>> /\ strv[2][1] = "/"

\* line 149: strv[2][0] == '/'
PathIsAbsolute(strv) == strv[3] # <<>> /\ strv[3][1] = "/"

\* lines 149-158: the uri, from the third token and the file name
BorderImageUri(strv, file_name) ==
  IF PathIsAbsolute(strv) THEN strv[3]
  ELSE g_path_get_dirname(file_name) \o <<"/">> \o strv[3]

\* edges taken one token early
BorderImageEdges_early(border_image, strv) ==
  LET n_tokens == Len(strv)
  IN  IF n_tokens = 5
        THEN [border_image EXCEPT !.top = atoi(strv[5]), !.right = atoi(strv[5]),
                                  !.bottom = atoi(strv[5]), !.left = atoi(strv[5])]
      ELSE IF n_tokens = 6
        THEN [border_image EXCEPT !.top = atoi(strv[5]), !.bottom = atoi(strv[5]),
                                  !.right = atoi(strv[6]), !.left = atoi(strv[6])]
      ELSE IF n_tokens = 7
        THEN [border_image EXCEPT !.top = atoi(strv[5]), !.right = atoi(strv[6]),
                                  !.left = atoi(strv[6]), !.bottom = atoi(strv[7])]
      ELSE IF n_tokens = 8
        THEN [border_image EXCEPT !.top = atoi(strv[5]), !.right = atoi(strv[6]),
                                  !.bottom = atoi(strv[7]), !.left = atoi(strv[8])]
      ELSE border_image

\* lines 160-182: the edges, from the sixth token on
BorderImageEdges(border_image, strv) ==
  LET n_tokens == Len(strv)
  IN  IF n_tokens = 6
        THEN [border_image EXCEPT !.top = atoi(strv[6]), !.right = atoi(strv[6]),
                                  !.bottom = atoi(strv[6]), !.left = atoi(strv[6])]
      ELSE IF n_tokens = 7
        THEN [border_image EXCEPT !.top = atoi(strv[6]), !.bottom = atoi(strv[6]),
                                  !.right = atoi(strv[7]), !.left = atoi(strv[7])]
      ELSE IF n_tokens = 8
        THEN [border_image EXCEPT !.top = atoi(strv[6]), !.right = atoi(strv[7]),
                                  !.left = atoi(strv[7]), !.bottom = atoi(strv[8])]
      ELSE IF n_tokens = 9
        THEN [border_image EXCEPT !.top = atoi(strv[6]), !.right = atoi(strv[7]),
                                  !.bottom = atoi(strv[8]), !.left = atoi(strv[9])]
      ELSE border_image

\* the characters g_strsplit_set is given at line 128
BorderImageDelimiters == {" ", "(", "\"", "'", ")"}

\* "none"
NoneString == <<"n", "o", "n", "e">>
\* "url"
UrlString == <<"u", "r", "l">>

\* lines 149-158 with two tokens: strv[2] is the NULL that ends the vector,
\* and strv[2][0] reads through it. The read may end the process; where it
\* does not, the test goes either way with a NULL for strv[2]
NullTokenOutcomes(file_name) ==
  {[ZeroBoxed("SIGSEGV") EXCEPT !.uri = NullString],
   [ZeroBoxed("MxBorderImage") EXCEPT !.uri = NullString],
   [ZeroBoxed("MxBorderImage") EXCEPT
      !.uri = g_path_get_dirname(file_name) \o <<"/">>]}

\* a test for "none" that only looks at the first four characters
IsNone_prefix(string) ==
  Len(string) >= Len(NoneString) /\ SubSeq(string, 1, Len(NoneString)) = NoneString

\* line 122: !strcmp (str, "none")
IsNone(string) == string = NoneString

\* lines 41-63: the indices of strv (from 1) that the switch reads
PaddingTokensRead(string) ==
  IF string = NullString THEN {}
  ELSE LET n == Len(g_strsplit(string, " "))
       IN  IF n \in 1..4 THEN 1..n ELSE {}

\* lines 140-181: the indices of strv (from 1) that are read: strv[0] for
\* the url, strv[2] for the path, and strv[5] on for the edges
BorderImageTokensRead(string) ==
  LET strv == g_strsplit_set(string, BorderImageDelimiters)
      n_tokens == Len(strv)
  IN  IF IsNone(string) \/ n_tokens < 2 THEN {}
      ELSE IF strv[1] # UrlString THEN {1}
      ELSE {1, 3} \cup (IF n_tokens \in 6..9 THEN 6..n_tokens ELSE {})

\* lines 117-184: what mx_border_image_set_from_string may put in dest, and
\* whether it warns
BorderImageFromString(string, file_name) ==
  LET border_image == ZeroBoxed("MxBorderImage")
      strv == g_strsplit_set(string, BorderImageDelimiters)
      n_tokens == Len(strv)
  IN  IF IsNone(string)
        THEN {[boxed |-> border_image, diag |-> "none"]}
      ELSE IF n_tokens < 2
        THEN {[boxed |-> border_image,
               diag |-> "g_warning: Could not parse border image"]}
      ELSE IF strv[1] # UrlString
        THEN {[boxed |-> border_image,
               diag |-> "g_warning: Could not parse border image"]}
      ELSE IF n_tokens = 2
        THEN {[boxed |-> b, diag |-> "none"] : b \in NullTokenOutcomes(file_name)}
      ELSE {[boxed |-> BorderImageEdges(
                         [border_image EXCEPT !.uri = BorderImageUri(strv, file_name)],
                         strv),
             diag |-> "none"]}

mx_border_image_set_from_string ==
  /\ dest.kind = "unset"
  /\ last' = Call("border_image_set_from_string", "", NULL)
  /\ \E outcome \in BorderImageFromString(str, filename) :
       /\ dest' = outcome.boxed
       /\ diag' = outcome.diag
  /\ emitted' = <<>>
  /\ UNCHANGED <<registry, nqueue, styling, str, filename>>

\* ------------------------------------------------------ the specifications
\* Every operation, on every input: the product of the specifications
\* below, which keep the pool, the queues, the styles and the parsed values
\* apart.
Next ==
  \/ \E owner \in OwnerTypes \cup {G_TYPE_INVALID}, pspec \in PSpecs :
       mx_stylable_iface_install_property(owner, pspec)
  \/ \E class \in ClassTypes : mx_stylable_base_finalize(class)
  \/ \E stylable \in Objects : mx_stylable_freeze_notify(stylable)
  \/ \E stylable \in Objects : mx_stylable_thaw_notify(stylable)
  \/ \E stylable \in Objects, property_name \in PropertyNames :
       mx_stylable_notify(stylable, property_name)
  \/ \E stylable \in Objects, style \in GObjects \cup {NULL} :
       mx_stylable_set_style(stylable, style)
  \/ \E style \in Styles : creator_unref(style)
  \/ \E stylable \in Objects, property_name \in PropertyNames,
         value_type \in ValueTypes :
       mx_stylable_get_property(stylable, property_name, value_type)
  \/ \E stylable \in Objects, property_name \in PropertyNames,
         value_type \in ValueTypes \cup {"G_TYPE_INVALID"} :
       mx_stylable_get_default_value(stylable, property_name, value_type)
  \/ \E stylable \in Objects : mx_stylable_changed(stylable)
  \/ mx_padding_from_string
  \/ mx_border_image_set_from_string

Spec == Init /\ [][Next]_vars

\* The pool under every install and finalize, no object notifying.
NextRegistry ==
  \/ \E owner \in OwnerTypes \cup {G_TYPE_INVALID}, pspec \in PSpecs :
       mx_stylable_iface_install_property(owner, pspec)
  \/ \E class \in ClassTypes : mx_stylable_base_finalize(class)

SpecRegistry == Init /\ [][NextRegistry]_vars

\* The pool under every install and finalize, with the objects asked for
\* style properties and for their defaults.
NextDefaults ==
  \/ \E owner \in OwnerTypes \cup {G_TYPE_INVALID}, pspec \in PSpecs :
       mx_stylable_iface_install_property(owner, pspec)
  \/ \E class \in ClassTypes : mx_stylable_base_finalize(class)
  \/ \E stylable \in Objects, property_name \in PropertyNames,
         value_type \in ValueTypes :
       mx_stylable_get_property(stylable, property_name, value_type)
  \/ \E stylable \in Objects, property_name \in PropertyNames,
         value_type \in ValueTypes \cup {"G_TYPE_INVALID"} :
       mx_stylable_get_default_value(stylable, property_name, value_type)

SpecDefaults == Init /\ [][NextDefaults]_vars

\* The objects' queues, with the classes installing their properties the way
\* the interface initialisers do: each with a GParamSpec made for the call.
NextNotify ==
  \/ \E owner \in OwnerTypes \cap ClassTypes, pspec \in PSpecs :
       floating[pspec] /\ mx_stylable_iface_install_property(owner, pspec)
  \/ \E stylable \in Objects : mx_stylable_freeze_notify(stylable)
  \/ \E stylable \in Objects : mx_stylable_thaw_notify(stylable)
  \/ \E stylable \in Objects, property_name \in PropertyNames :
       mx_stylable_notify(stylable, property_name)

SpecNotify == Init /\ [][NextNotify]_vars

\* The same with callers that thaw what is frozen: a thaw_notify of a frozen
\* object is not put off for ever.
SpecNotifyThawed ==
  /\ SpecNotify
  /\ \A stylable \in Objects :
       WF_vars(~ThawNotFrozen(nqueue[stylable])
                 /\ mx_stylable_thaw_notify(stylable))

\* The styles of the objects: the classes install their properties as
\* above, the objects are given styles and are asked for style properties.
NextStyle ==
  \/ \E owner \in OwnerTypes \cap ClassTypes, pspec \in PSpecs :
       floating[pspec] /\ mx_stylable_iface_install_property(owner, pspec)
  \/ \E stylable \in Objects, style \in GObjects \cup {NULL} :
       mx_stylable_set_style(stylable, style)
  \/ \E style \in Styles : creator_unref(style)
  \/ \E stylable \in Objects, property_name \in PropertyNames,
         value_type \in ValueTypes :
       mx_stylable_get_property(stylable, property_name, value_type)

SpecStyle == Init /\ [][NextStyle]_vars

\* The stylable-changed signal next to the queues and the styles, with one
\* class installing two properties.
NextChanged ==
  \/ \E pspec \in {1, 3} :
       floating[pspec] /\ mx_stylable_iface_install_property("Widget", pspec)
  \/ \E stylable \in Objects, style \in Styles \cup {NULL} :
       mx_stylable_set_style(stylable, style)
  \/ \E stylable \in Objects : mx_stylable_changed(stylable)
  \/ \E stylable \in Objects : mx_stylable_freeze_notify(stylable)
  \/ \E stylable \in Objects : mx_stylable_thaw_notify(stylable)
  \/ \E stylable \in Objects, property_name \in PropertyNames :
       mx_stylable_notify(stylable, property_name)

SpecChanged == Init /\ [][NextChanged]_vars

\* The queues of an object that was frozen 65534 times and of one that was
\* not, with one class installing two properties. Of the thaws of the first
\* object only those next to the limit are followed.
InitDeepFreeze ==
  /\ InitButQueues
  /\ nqueue = [o \in Objects |->
                 IF o = "o1"
                   THEN [NoQueue EXCEPT !.alloc = TRUE,
                                        !.freeze_count = G_MAXUINT16 - 1]
                   ELSE NoQueue]
  /\ str = <<>>
  /\ filename = <<>>
  /\ dest = NoBoxed

NextDeepFreeze ==
  \/ \E pspec \in {1, 3} :
       floating[pspec] /\ mx_stylable_iface_install_property("Widget", pspec)
  \/ \E stylable \in Objects : mx_stylable_freeze_notify(stylable)
  \/ \E stylable \in Objects :
       /\ \/ nqueue[stylable].freeze_count <= MaxFreeze
          \/ nqueue[stylable].freeze_count >= G_MAXUINT16 - 1
       /\ mx_stylable_thaw_notify(stylable)
  \/ \E stylable \in Objects, property_name \in PropertyNames :
       mx_stylable_notify(stylable, property_name)

SpecDeepFreeze == InitDeepFreeze /\ [][NextDeepFreeze]_vars

\* the sequences over S of length up to n
SeqsUpTo(S, n) == UNION {[1..k -> S] : k \in 0..n}

\* the tokens with sep between every two of them
RECURSIVE Join(_, _)
Join(tokens, sep) ==
  IF tokens = <<>> THEN <<>>
  ELSE IF Len(tokens) = 1 THEN tokens[1]
  ELSE tokens[1] \o sep \o Join(Tail(tokens), sep)

\* The strings mx_padding_from_string is tried on: integers with one
\* space, two spaces or a tab between them, every short string of digits,
\* signs, white space and a letter, and the NULL string.
PaddingTokens == {<<"7">>, <<"1", "2">>, <<"-", "3">>}
PaddingSeparators == {<<" ">>, <<" ", " ">>, <<"\t">>}
PaddingChars == {"1", "2", " ", "\t", "-", "x"}
PaddingTexts ==
  {Join(tokens, sep) : tokens \in SeqsUpTo(PaddingTokens, MaxPadTokens),
                       sep \in PaddingSeparators}
  \cup SeqsUpTo(PaddingChars, MaxRawLen)
  \cup {NullString}

InitPadding ==
  /\ InitStylable
  /\ str \in PaddingTexts
  /\ filename = <<>>
  /\ dest = NoBoxed

NextPadding == mx_padding_from_string

SpecPadding == InitPadding /\ [][NextPadding]_vars

\* The strings mx_border_image_set_from_string is tried on: url, a path
\* between parentheses with double quotes, single quotes or none, and up to
\* MaxEdgeTokens tokens with one or two spaces in front of each; and strings
\* of other shapes.
BorderImagePaths ==
  {<<"i", "m", "g", ".", "p", "n", "g">>, <<"/", "i">>, <<"d", "/", "i">>}
BorderImageQuotes == {<<"\"">>, <<"'">>, <<>>}
BorderImageTokens == {<<"3">>, <<"1", "4">>}
BorderImageUrl(quote, path) ==
  UrlString \o <<"(">> \o quote \o path \o quote \o <<")">>
BorderImageOtherTexts ==
  {NoneString, <<>>, UrlString, UrlString \o <<"(">>,
   UrlString \o <<"(", ")">>, UrlString \o <<" ", "3">>,
   NoneString \o <<" ", "3">>,
   <<"u", "r", "i", "(", "\"", "i", "\"", ")", " ", "3">>,
   <<" ">> \o BorderImageUrl(<<"\"">>, <<"i">>) \o <<" ", "3">>}
BorderImageTexts ==
  {BorderImageUrl(quote, path) \o Join(<<<<>>>> \o tokens, sep) :
     quote \in BorderImageQuotes, path \in BorderImagePaths,
     tokens \in SeqsUpTo(BorderImageTokens, MaxEdgeTokens),
     sep \in {<<" ">>, <<" ", " ">>}}
  \cup BorderImageOtherTexts

\* the file names of the style sheets
FileNames ==
  {<<"/", "a", "/", "b", "/", "s", "t", "y", "l", "e", ".", "c", "s", "s">>,
   <<"s">>, <<"/", "s">>, <<"a", "/", "/", "s">>}

InitBorderImage ==
  /\ InitStylable
  /\ str \in BorderImageTexts
  /\ filename \in FileNames
  /\ dest = NoBoxed

NextBorderImage == mx_border_image_set_from_string

SpecBorderImage == InitBorderImage /\ [][NextBorderImage]_vars

TypeOK ==
  /\ pool \subseteq PSpecs
  /\ \A o \in Objects : nqueue[o].freeze_count \in 0..G_MAXUINT16

\* ------------------------------------------------------------ the claims
Range(seq) == {seq[i] : i \in 1..Len(seq)}
NoDuplicates(seq) == \A i, j \in 1..Len(seq) : seq[i] = seq[j] => i = j
\* the style-notify emissions of the last call that are on object o
EmittedOn(o) == {i \in 1..Len(emitted) : emitted[i].obj = o}
\* the emissions em are exactly one style-notify on o for every pspec of
\* the set, detailed by the name of the pspec, and nothing else
ExactlyOnceEach(em, o, pspecset) ==
  /\ Len(em) = Cardinality(pspecset)
  /\ \A i \in 1..Len(em) :
       /\ em[i].signal = "style-notify"
       /\ em[i].obj = o
       /\ em[i].pspec \in pspecset
       /\ em[i].detail = pspec_name(em[i].pspec)
  /\ \A p \in pspecset : Cardinality({i \in 1..Len(em) : em[i].pspec = p}) = 1

\* C1 - Coalescing. While an object is frozen, mx_stylable_notify of a known
\* property adds its pspec to the pending pspecs unless it is already among
\* them, and dispatches nothing; the thaw that brings freeze_count back to 0
\* then emits exactly one style-notify per distinct pending pspec. So k
\* distinct pspecs notified between freeze and the final thaw give exactly
\* k emissions, however often and in whatever order each was notified.
C1Step ==
  \A o \in Objects :
    /\ \A n \in PropertyNames :
         (/\ mx_stylable_notify(o, n)
          /\ nqueue[o].freeze_count > 0
          /\ NotifyLookup(o, n) # NULL)
         => /\ Range(nqueue'[o].pspecs) = Range(nqueue[o].pspecs) \cup {NotifyLookup(o, n)}
            /\ NoDuplicates(nqueue'[o].pspecs)
            /\ nqueue'[o].freeze_count = nqueue[o].freeze_count
            /\ emitted' = <<>>
    /\ (mx_stylable_thaw_notify(o) /\ nqueue[o].freeze_count = 1)
       => /\ ExactlyOnceEach(emitted', o, Range(nqueue[o].pspecs))
          /\ NoDuplicates(nqueue[o].pspecs)

C1_Coalescing == [][C1Step]_vars

\* a final thaw has just emitted two notifications for two distinct pspecs
C1_Witness ==
  /\ last.op = "thaw_notify"
  /\ Len(emitted) = 2
  /\ emitted[1].pspec # emitted[2].pspec
  /\ nqueue[last.obj].freeze_count = 0

\* C2 - Nested freeze/thaw. No call leaves an object frozen having emitted a
\* style-notify on it; a thaw that leaves freeze_count above 0 emits
\* nothing, takes one off freeze_count and keeps the pending pspecs; and a
\* call that emits for an object that was frozen is the thaw that brings its
\* freeze_count from 1 to 0.
C2Step ==
  \A o \in Objects :
    /\ nqueue'[o].freeze_count > 0 => EmittedOn(o)' = {}
    /\ (mx_stylable_thaw_notify(o) /\ nqueue[o].freeze_count > 1)
       => /\ emitted' = <<>>
          /\ nqueue'[o].freeze_count = nqueue[o].freeze_count - 1
          /\ nqueue'[o].pspecs = nqueue[o].pspecs
    /\ (nqueue[o].freeze_count > 0 /\ EmittedOn(o)' # {})
       => /\ last'.op = "thaw_notify" /\ last'.obj = o
          /\ nqueue[o].freeze_count = 1
          /\ Range(nqueue[o].pspecs) = {emitted'[i].pspec : i \in EmittedOn(o)'}

C2_NestedFreeze == [][C2Step]_vars

\* an inner thaw has returned: the object is still frozen, its pending
\* pspecs are still buffered and nothing was emitted
C2_Witness ==
  /\ last.op = "thaw_notify"
  /\ diag = "none"
  /\ nqueue[last.obj].freeze_count = 1
  /\ nqueue[last.obj].pspecs # <<>>
  /\ emitted = <<>>

\* C3 - Unfrozen enqueue. mx_stylable_notify of a known property on an
\* object whose freeze_count is 0 emits exactly one style-notify, for that
\* property, and leaves the object with freeze_count 0 and nothing pending.
C3Step ==
  \A o \in Objects, n \in PropertyNames :
    (/\ mx_stylable_notify(o, n)
     /\ nqueue[o].freeze_count = 0
     /\ NotifyLookup(o, n) # NULL)
    => /\ ExactlyOnceEach(emitted', o, {NotifyLookup(o, n)})
       /\ emitted'[1].detail = n
       /\ nqueue'[o].freeze_count = 0
       /\ nqueue'[o].pspecs = <<>>

C3_UnfrozenEnqueue == [][C3Step]_vars

\* a notify on an unfrozen object has just emitted its one notification
C3_Witness ==
  /\ last.op = "notify"
  /\ last.pspec # NULL
  /\ Len(emitted) = 1
  /\ emitted[1].pspec = last.pspec
  /\ nqueue[last.obj] = NoQueue

\* C4 - Thaw without freeze. mx_stylable_thaw_notify on an object that has
\* no queue or whose freeze_count is 0 reports the "not frozen" warning,
\* emits nothing and changes nothing: freeze_count stays 0 and the pending
\* pspecs of every object, and the pool, are as before.
C4Step ==
  \A o \in Objects :
    (mx_stylable_thaw_notify(o) /\ nqueue[o].freeze_count = 0)
    => /\ diag' = "g_warning: not frozen"
       /\ emitted' = <<>>
       /\ nqueue' = nqueue
       /\ nqueue'[o].freeze_count = 0
       /\ registry' = registry

C4_ThawWithoutFreeze == [][C4Step]_vars

\* a thaw of an unfrozen object has just been reported
C4_Witness ==
  /\ last.op = "thaw_notify"
  /\ diag = "g_warning: not frozen"
  /\ nqueue[last.obj].freeze_count = 0

\* a descriptor install_property's guards accept: readable and neither
\* construct nor construct-only
Installable(p) ==
  /\ G_PARAM_READABLE \in pspec_flags(p)
  /\ pspec_flags(p) \cap {G_PARAM_CONSTRUCT, G_PARAM_CONSTRUCT_ONLY} = {}

\* C5 as stated - Install then lookup. For every readable, non-construct
\* descriptor d and owner type T with no descriptor of that name installed
\* for T, after install(T, d) the exact-type lookup of d's name for T
\* returns d, and d is stamped with T as its real owner.
C5OriginalStep ==
  \A T \in OwnerTypes, d \in PSpecs :
    (/\ Installable(d)
     /\ g_param_spec_pool_lookup(pspec_name(d), T, FALSE) = NULL
     /\ mx_stylable_iface_install_property(T, d))
    => /\ g_param_spec_pool_lookup(pspec_name(d), T, FALSE)' = d
       /\ real_owner'[d] = T

C5_Original == [][C5OriginalStep]_vars

\* C5 as amended - Install then lookup. For every readable, non-construct
\* descriptor d that has not been installed for any owner type before, and
\* owner type T with no descriptor of that name installed for T, after
\* install(T, d) the exact-type lookup of d's name for T returns d, and d
\* is stamped with T as its real owner.
C5Step ==
  \A T \in OwnerTypes, d \in PSpecs :
    (/\ Installable(d)
     /\ owner_type[d] = G_TYPE_INVALID
     /\ g_param_spec_pool_lookup(pspec_name(d), T, FALSE) = NULL
     /\ mx_stylable_iface_install_property(T, d))
    => /\ g_param_spec_pool_lookup(pspec_name(d), T, FALSE)' = d
       /\ owner_type'[d] = T
       /\ real_owner'[d] = T
       /\ diag' = "none"

C5_InstallThenLookup == [][C5Step]_vars

\* an install has just put its descriptor in the pool, stamped with its owner
C5_Witness ==
  /\ last.op = "install_property"
  /\ diag = "none"
  /\ last.pspec \in pool
  /\ g_param_spec_pool_lookup(pspec_name(last.pspec), owner_type[last.pspec], FALSE) = last.pspec
  /\ real_owner[last.pspec] = owner_type[last.pspec]

\* the pool holds at most one descriptor per (name, owner_type)
OnePerNameAndOwner ==
  \A p, q \in pool :
    (pspec_name(p) = pspec_name(q) /\ owner_type[p] = owner_type[q]) => p = q

\* C6 - Duplicate registration. The pool holds at most one descriptor per
\* (name, owner_type); an install whose (name, owner_type) is already in the
\* pool is rejected with a diagnostic and leaves the pool and every
\* descriptor as they were, so every lookup returns what it returned before.
C6Step ==
  /\ OnePerNameAndOwner /\ OnePerNameAndOwner'
  /\ \A T \in OwnerTypes, d \in PSpecs :
       (/\ \E q \in pool : pspec_name(q) = pspec_name(d) /\ owner_type[q] = T
        /\ mx_stylable_iface_install_property(T, d))
       => /\ diag' # "none"
          /\ registry' = registry
          /\ \A U \in OwnerTypes \cup ClassTypes, n \in PropertyNames, w \in BOOLEAN :
               g_param_spec_pool_lookup(n, U, w)' = g_param_spec_pool_lookup(n, U, w)

C6_DuplicateRegistration == [][C6Step]_vars

\* a duplicate install has just been refused with the warning
C6_Witness ==
  /\ last.op = "install_property"
  /\ diag = "g_warning: already contains a style property"
  /\ \E q \in pool : q # last.pspec /\ pspec_name(q) = pspec_name(last.pspec)

\* the descriptors of name n in the pool whose owner is T or an ancestor of T
OnChain(T, n) ==
  {p \in pool : pspec_name(p) = n /\ owner_type[p] \in Ancestors(T)}

\* C7 - Ancestor-walk lookup. mx_stylable_find_property for type T and name
\* n returns the descriptor of that name whose owner is the nearest type on
\* the chain T, parent(T), ... that owns one, and NULL if none on the chain
\* does; so a descriptor of a derived type shadows the ancestor's for the
\* derived type and its descendants and not for the ancestor.
C7_AncestorWalk ==
  \A T \in ClassTypes, n \in PropertyNames :
    LET found == mx_stylable_find_property(T, n)
    IN  IF OnChain(T, n) = {}
          THEN found = NULL
          ELSE /\ found \in OnChain(T, n)
               /\ \A q \in OnChain(T, n) :
                    g_type_depth(owner_type[q]) <= g_type_depth(owner_type[found])

\* Widget and Button both own a descriptor of name x: Button's is found
\* from Button and from Toggle, Widget's from Widget
C7_Witness ==
  \E a, b \in pool :
    /\ a # b /\ pspec_name(a) = "x" /\ pspec_name(b) = "x"
    /\ owner_type[a] = "Widget" /\ owner_type[b] = "Button"
    /\ mx_stylable_find_property("Toggle", "x") = b
    /\ mx_stylable_find_property("Button", "x") = b
    /\ mx_stylable_find_property("Widget", "x") = a

\* the names some descriptor of the pool owned by T or an ancestor of T has
VisibleNames(T) == {n \in PropertyNames : OnChain(T, n) # {}}

\* C8 - Listing. mx_stylable_list_properties for type T returns exactly the
\* descriptors { find_property(T, n) : n a name owned by T or an ancestor },
\* each once and no two of one name, and the count it stores is the number
\* of descriptors returned.
C8_Listing ==
  \A T \in ClassTypes :
    LET listed == mx_stylable_list_properties(T)
    IN  /\ Range(listed.pspecs) = {mx_stylable_find_property(T, n) : n \in VisibleNames(T)}
        /\ \A i, j \in 1..Len(listed.pspecs) :
             pspec_name(listed.pspecs[i]) = pspec_name(listed.pspecs[j]) => i = j
        /\ listed.n = Len(listed.pspecs)

\* Toggle sees two names through three descriptors on its chain, one of
\* them shadowed, and its list holds the two that win
C8_Witness ==
  /\ Cardinality({p \in pool : owner_type[p] \in Ancestors("Toggle")}) = 3
  /\ mx_stylable_list_properties("Toggle").n = 2
  /\ Len(mx_stylable_list_properties("Widget").pspecs) >= 1

\* C9 as stated - Teardown purge. When the interface of owner type T is
\* finalized every descriptor installed with owner T leaves the pool, and
\* every descriptor of another owner stays and resolves as before.
C9Step ==
  \A T \in ClassTypes :
    mx_stylable_base_finalize(T)
    => /\ pool' = {p \in pool : owner_type[p] # T}
       /\ \A U \in ClassTypes \ {T}, n \in PropertyNames :
            g_param_spec_pool_lookup(n, U, FALSE)' = g_param_spec_pool_lookup(n, U, FALSE)

C9_TeardownPurge == [][C9Step]_vars

\* C10 - Install precondition. An install of a descriptor that is not
\* readable, or that is construct-only, is rejected with a diagnostic and
\* leaves the pool and every descriptor as they were: every lookup and
\* every listing gives what it gave before.
C10Step ==
  (/\ last'.op = "install_property"
   /\ \/ G_PARAM_READABLE \notin pspec_flags(last'.pspec)
      \/ G_PARAM_CONSTRUCT_ONLY \in pspec_flags(last'.pspec))
  => /\ diag' # "none"
     /\ registry' = registry
     /\ \A U \in OwnerTypes \cup ClassTypes, n \in PropertyNames, w \in BOOLEAN :
          g_param_spec_pool_lookup(n, U, w)' = g_param_spec_pool_lookup(n, U, w)
     /\ \A U \in ClassTypes :
          mx_stylable_list_properties(U)' = mx_stylable_list_properties(U)

C10_InstallPrecondition == [][C10Step]_vars

\* an install of the write-only descriptor has just been refused, with
\* descriptors installed in the pool
C10_Witness ==
  /\ last.op = "install_property"
  /\ G_PARAM_READABLE \notin pspec_flags(last.pspec)
  /\ diag = "g_return_if_fail: pspec->flags & G_PARAM_READABLE"
  /\ pool # {}

\* a call of mx_stylable_set_style that got past its two checks
SetStyleDone(call) == call.op = "set_style" /\ call.pspec \in Styles

\* C11 - After a successful set_style(S) on an object, whether its class has
\* its own get_style/set_style or relies on the defaults, get_style returns
\* S, and goes on returning it until the next successful set_style on that
\* object.
C11Step ==
  \A o \in Objects :
    IF SetStyleDone(last') /\ last'.obj = o
      THEN mx_stylable_get_style(o)' = last'.pspec
      ELSE last' # last => mx_stylable_get_style(o)' = mx_stylable_get_style(o)
C11_GetAfterSet == [][C11Step]_vars

\* the steps of the log that do `step` to `object`
StepsOf(log, step, object) ==
  {i \in 1..Len(log) : log[i].step = step /\ log[i].style = object}

\* C12 - A successful set_style(S) on an object whose style was P does, in
\* this order: retain S; emit style-changed exactly once, with P handed to
\* the handlers; release P; notify "style". P is still alive when
\* style-changed is emitted.
C12Step ==
  SetStyleDone(last') =>
    LET log == effects'
        P == StoredStyle(last'.obj)
        S == last'.pspec
    IN  \E r, e, n \in 1..Len(log) :
          /\ r < e /\ e < n
          /\ r \in StepsOf(log, "g_object_ref", S) \cup StepsOf(log, "g_object_ref_sink", S)
          /\ StepsOf(log, "g_signal_emit style-changed", NULL) = {e}
          /\ log[e].args = <<P>>
          /\ StepsOf(log, "g_object_notify style", NULL) = {n}
          /\ P # NULL =>
               /\ log[e].refs[P] > 0
               /\ \E u \in (e + 1)..(n - 1) : u \in StepsOf(log, "g_object_unref", P)
               /\ \A u \in 1..(e - 1) : u \notin StepsOf(log, "g_object_unref", P)
C12_SetStyleOrder == [][C12Step]_vars

\* the objects that hold a reference on style s for themselves
Holders(s) == {o \in Objects : StoredStyle(o) = s}
\* 1 if the code that made s still holds its reference
CreatorRefs(s) == IF creator_ref[s] THEN 1 ELSE 0
\* every reference on a style is the one of its creator or the one of an
\* object it is attached to
RefsBalanced ==
  \A s \in Styles : style_ref_count[s] = CreatorRefs(s) + Cardinality(Holders(s))
\* the count of s before step i of the log of a call
CountBefore(log, i, s) == IF i = 1 THEN style_ref_count[s] ELSE log[i - 1].refs[s]

\* C13 - Reference symmetry. After any sequence of set_style calls, the
\* first on an object and one passing the style already attached included:
\* the object holds exactly one reference on the style attached last and
\* none on an earlier one; the style a call replaces loses exactly the one
\* reference the object had on it; no step of the call takes a reference of
\* the creator or of another object away; no step touches a style whose
\* count is zero.
C13Step ==
  /\ RefsBalanced'
  /\ \A o \in Objects : SetStyleDone(last') /\ last'.obj = o =>
       LET log == effects'
           P == StoredStyle(o)
           S == last'.pspec
       IN  /\ StoredStyle(o)' = S
           /\ \A s \in Styles :
                style_ref_count'[s] = style_ref_count[s]
                   + (IF s = S THEN 1 ELSE 0) - (IF s = P THEN 1 ELSE 0)
           /\ \A i \in 1..Len(log) :
                /\ log[i].style # NULL => CountBefore(log, i, log[i].style) > 0
                /\ \A s \in Styles :
                     log[i].refs[s] >=
                       CreatorRefs(s) + Cardinality(Holders(s) \ {o})
C13_RefSymmetry == [][C13Step]_vars
\* a set_style replaced a style that nothing else held: its count is zero
C13_Witness ==
  /\ SetStyleDone(last)
  /\ \E s \in Styles : style_ref_count[s] = 0
  /\ \E i \in 1..Len(effects) :
       effects[i].step = "g_object_unref" /\ effects[i].style # NULL
         /\ effects[i].refs[effects[i].style] = 0

\* C14 - set_style with an argument that is not an MxStyle is reported and
\* aborted: the attached style and every reference count are as before, and
\* neither style-changed nor the notify of "style" is emitted.
C14Step ==
  (last'.op = "set_style" /\ last'.pspec \notin Styles) =>
    /\ diag' = "g_return_if_fail: MX_IS_STYLE (style)"
    /\ UNCHANGED <<datalist, priv_style, style_ref_count>>
    /\ \A o \in Objects : mx_stylable_get_style(o)' = mx_stylable_get_style(o)
    /\ emitted' = <<>>
    /\ effects' = <<>>
C14_InvalidStyle == [][C14Step]_vars
\* an object with a style attached was given NULL, and one a GObject that
\* is no MxStyle
C14_Witness ==
  /\ last.op = "set_style"
  /\ last.pspec \notin Styles
  /\ diag = "g_return_if_fail: MX_IS_STYLE (style)"
  /\ StoredStyle(last.obj) # NULL

\* C15 - get_property is fail-soft. For a property the class of the object
\* knows, asked with a GValue of the type of the property, an object with
\* no style gets the reset value and no style is consulted. A name that
\* resolves to no pspec, or a GValue of another type than the pspec's, is
\* reported and the GValue is left as it was.
C15Step ==
  last'.op = "get_property" =>
    LET o == last'.obj
        pspec == last'.pspec
    IN  /\ (pspec # NULL /\ gvalue'.g_type = G_PARAM_SPEC_VALUE_TYPE(pspec)
              /\ mx_stylable_get_style(o) = NULL) =>
             /\ gvalue'.data = "zero"
             /\ style_queries' = <<>>
             /\ diag' = "none"
        /\ (pspec = NULL
              \/ (pspec # NULL /\ gvalue'.g_type # G_PARAM_SPEC_VALUE_TYPE(pspec))) =>
             /\ diag' # "none"
             /\ gvalue'.data = "caller"
             /\ style_queries' = <<>>
C15_GetPropertyFailSoft == [][C15Step]_vars
\* a known property was read from an object without a style
C15_Witness ==
  /\ last.op = "get_property"
  /\ last.pspec # NULL
  /\ mx_stylable_get_style(last.obj) = NULL
  /\ gvalue = [g_type |-> G_PARAM_SPEC_VALUE_TYPE(last.pspec), data |-> "zero"]

\* the stylable-changed emissions among em
ChangedIn(em) == {i \in 1..Len(em) : em[i].signal = "stylable-changed"}

\* C16 - mx_stylable_changed emits stylable-changed on the object exactly
\* once whatever its freeze count, and leaves the freeze counts, the pending
\* pspecs, the attached styles and the pool as they were; freeze_notify,
\* thaw_notify and notify never emit stylable-changed.
C16Step ==
  /\ last'.op = "changed" =>
       /\ emitted' = <<[signal |-> "stylable-changed", obj |-> last'.obj,
                        detail |-> "", pspec |-> NULL]>>
       /\ UNCHANGED <<nqueue, datalist, priv_style, style_ref_count, registry>>
  /\ last'.op \in {"freeze_notify", "thaw_notify", "notify"} =>
       ChangedIn(emitted') = {}
C16_Changed == [][C16Step]_vars
\* changed on an object frozen twice, with a pspec pending and a style
C16_Witness ==
  /\ last.op = "changed"
  /\ nqueue[last.obj].freeze_count = MaxFreeze
  /\ nqueue[last.obj].pspecs # <<>>
  /\ StoredStyle(last.obj) # NULL
  /\ Len(emitted) = 1

\* the four edges of a parsed value
Edges(boxed) == <<boxed.top, boxed.right, boxed.bottom, boxed.left>>

\* the maximal runs of characters of s that are not white space, token
\* being the run that the characters read so far have begun
RECURSIVE WsTokensFrom(_, _)
WsTokensFrom(s, token) ==
  IF s = <<>> THEN (IF token = <<>> THEN <<>> ELSE <<token>>)
  ELSE IF Head(s) \in SpaceChars
    THEN (IF token = <<>> THEN <<>> ELSE <<token>>) \o WsTokensFrom(Tail(s), <<>>)
    ELSE WsTokensFrom(Tail(s), Append(token, Head(s)))
WsTokens(s) == WsTokensFrom(s, <<>>)

\* a decimal integer: digits, after a sign or not
IsInteger(token) ==
  LET digits == IF token # <<>> /\ token[1] \in {"-", "+"} THEN Tail(token) ELSE token
  IN  digits # <<>> /\ \A i \in 1..Len(digits) : digits[i] \in DigitChars

\* the number a decimal integer denotes
RECURSIVE Decimal(_)
Decimal(digits) ==
  IF digits = <<>> THEN 0
  ELSE 10 * Decimal(SubSeq(digits, 1, Len(digits) - 1)) + DigitValue(digits[Len(digits)])
IntegerValue(token) ==
  IF token[1] = "-" THEN 0 - Decimal(Tail(token))
  ELSE IF token[1] = "+" THEN Decimal(Tail(token))
  ELSE Decimal(token)

\* the edges the shorthand of n integers stands for, none for other n
ShorthandEdges(t) ==
  CASE Len(t) = 1 -> <<t[1], t[1], t[1], t[1]>>
    [] Len(t) = 2 -> <<t[1], t[2], t[1], t[2]>>
    [] Len(t) = 3 -> <<t[1], t[2], t[3], t[2]>>
    [] Len(t) = 4 -> <<t[1], t[2], t[3], t[4]>>
    [] OTHER -> <<0, 0, 0, 0>>

\* the parsed MxPadding is the one the shorthand of the integers of str
\* stands for
PaddingIsShorthand ==
  IF str = NullString THEN Edges(dest) = <<0, 0, 0, 0>>
  ELSE LET tokens == WsTokens(str)
       IN  (\A i \in 1..Len(tokens) : IsInteger(tokens[i])) =>
             Edges(dest) = ShorthandEdges([i \in 1..Len(tokens) |-> IntegerValue(tokens[i])])

\* C17 as claimed - a text of n integers separated by white space gives all
\* four edges t0 for n = 1; top = bottom = t0, left = right = t1 for n = 2;
\* top = t0, left = right = t1, bottom = t2 for n = 3; top, right, bottom,
\* left = t0, t1, t2, t3 for n = 4; every other n, the empty text and the
\* absent text give four zeros.
C17_Original == dest.kind = "MxPadding" => PaddingIsShorthand

\* the integers of s have exactly one space between every two of them, and
\* s has no other white space
SingleSpaced(s) == s = Join(WsTokens(s), <<" ">>)

\* C17 - a text of n integers with exactly one space character between
\* every two of them, and no other white space, gives the edges of the
\* shorthand: as above for n = 1..4; every other n, the empty text and the
\* absent text give four zeros.
C17_PaddingShorthand ==
  (dest.kind = "MxPadding" /\ (str = NullString \/ SingleSpaced(str))) =>
    PaddingIsShorthand
\* three integers, the first and the last different, were parsed
C17_Witness ==
  /\ dest.kind = "MxPadding"
  /\ str # NullString /\ SingleSpaced(str)
  /\ Len(WsTokens(str)) = 3
  /\ \A i \in 1..3 : IsInteger(WsTokens(str)[i])
  /\ dest.top # dest.bottom /\ dest.right = dest.left /\ dest.right # dest.top

\* the tokens of the text of a border image
BorderImageTokensOf(s) == g_strsplit_set(s, BorderImageDelimiters)

\* mx_border_image_set_from_string took the text for a url with a path
BorderImageAccepted ==
  /\ dest.kind = "MxBorderImage"
  /\ diag = "none"
  /\ str # NoneString
  /\ Len(BorderImageTokensOf(str)) >= 3

\* the directory of a path: "." if it has no '/', else the path up to the
\* last character before the '/' characters that end at its last '/' (or
\* its first character, if there is nothing before them)
DirectoryOf(path) ==
  LET slashes == {i \in 1..Len(path) : path[i] = "/"}
  IN  IF slashes = {} THEN <<".">>
      ELSE LET k == CHOOSE i \in slashes : \A j \in slashes : j <= i
               e == CHOOSE j \in 1..k :
                      /\ \A m \in (j + 1)..k : path[m] = "/"
                      /\ j = 1 \/ path[j] # "/"
           IN  SubSeq(path, 1, e)

\* the index of the n-th delimiter of s at or after index i, Len(s) + 1 if
\* there is none
RECURSIVE NthDelimiter(_, _, _)
NthDelimiter(s, i, n) ==
  IF i > Len(s) THEN Len(s) + 1
  ELSE IF s[i] \in BorderImageDelimiters
    THEN (IF n = 1 THEN i ELSE NthDelimiter(s, i + 1, n - 1))
    ELSE NthDelimiter(s, i + 1, n)

\* s up to the end of its third token
ThroughPath(s) == SubSeq(s, 1, NthDelimiter(s, 1, 3) - 1)

\* what may follow the path token
AfterPath ==
  {<<>>, <<")">>, <<"\"", ")">>, <<"\"", ")", " ", "3">>,
   <<"\"", ")", " ", "9", " ", "8">>, <<")", " ", "1", " ", "2", " ", "3", " ", "4">>,
   <<" ", "5", " ", "6", " ", "7", " ", "8", " ", "9", " ", "1", " ", "2">>}

\* C18 - for every accepted text whose path token is p, the uri is p itself
\* if p starts with '/', and dirname (filename) "/" p otherwise; the uri is
\* the same whatever follows the path token.
C18_PathResolution ==
  BorderImageAccepted =>
    LET p == BorderImageTokensOf(str)[3]
    IN  /\ dest.uri = IF p # <<>> /\ p[1] = "/" THEN p
                      ELSE DirectoryOf(filename) \o <<"/">> \o p
        /\ \A rest \in AfterPath :
             \A outcome \in BorderImageFromString(ThroughPath(str) \o rest, filename) :
               outcome.boxed.uri = dest.uri
\* a relative path with two edge tokens was resolved against a file name
\* with a directory
C18_Witness ==
  /\ BorderImageAccepted
  /\ Len(BorderImageTokensOf(str)) = 7
  /\ \A i \in 6..7 : IsInteger(BorderImageTokensOf(str)[i])
  /\ BorderImageTokensOf(str)[3] = <<"d", "/", "i">>
  /\ filename = <<"a", "/", "/", "s">>
  /\ dest.uri = <<"a", "/", "d", "/", "i">>
  /\ dest.top # dest.right

\* url("img.png") 3
C19Text ==
  <<"u", "r", "l", "(", "\"", "i", "m", "g", ".", "p", "n", "g", "\"", ")", " ", "3">>
\* /a/b/style.css
C19FileName ==
  <<"/", "a", "/", "b", "/", "s", "t", "y", "l", "e", ".", "c", "s", "s">>

\* C19 as claimed - url("img.png") 3 with the file name /a/b/style.css
\* gives the uri /a/img.png and the edges 3, 3, 3, 3.
C19_Original ==
  (str = C19Text /\ filename = C19FileName /\ dest.kind # "unset") =>
    /\ dest.uri = <<"/", "a", "/", "i", "m", "g", ".", "p", "n", "g">>
    /\ Edges(dest) = <<3, 3, 3, 3>>

\* C19 - url("img.png") 3 with the file name /a/b/style.css gives the uri
\* /a/b/img.png, the path in the directory of the file, and the edges 3, 3,
\* 3, 3.
C19_Example ==
  (str = C19Text /\ filename = C19FileName /\ dest.kind # "unset") =>
    /\ dest.kind = "MxBorderImage"
    /\ dest.uri = <<"/", "a", "/", "b", "/", "i", "m", "g", ".", "p", "n", "g">>
    /\ Edges(dest) = <<3, 3, 3, 3>>
C19_Witness ==
  /\ str = C19Text
  /\ filename = C19FileName
  /\ dest.kind = "MxBorderImage"
  /\ diag = "none"

\* C20 - for a text url("<path>") followed by k tokens: with k in 1..4, 6 to
\* 9 tokens in all, the edges are those mx_padding_from_string gives for the
\* k tokens; with any other number of tokens the edges are 0 and the uri is
\* set from the path all the same.
C20_EdgesAsPadding ==
  BorderImageAccepted =>
    LET strv == BorderImageTokensOf(str)
        n_tokens == Len(strv)
    IN  IF n_tokens \in 6..9
          THEN Edges(dest) =
                 Edges(PaddingFromString(Join(SubSeq(strv, 6, n_tokens), <<" ">>)))
          ELSE /\ Edges(dest) = <<0, 0, 0, 0>>
               /\ dest.uri # NullString
               /\ dest.uri # <<>>
\* url("<path>") and three integers, the second on right and left
C20_Witness ==
  /\ BorderImageAccepted
  /\ Len(BorderImageTokensOf(str)) = 8
  /\ BorderImageTokensOf(str)[2] = <<>>
  /\ \A i \in 6..8 : IsInteger(BorderImageTokensOf(str)[i])
  /\ dest.top # dest.right /\ dest.right = dest.left /\ dest.bottom # dest.right

\* C21 - The parsers never crash: for every text and file name they return
\* a value; no token is read at an index beyond the tokens the split gave
\* (texts that start with url and have exactly 2 tokens, and texts of fewer
\* than 6 tokens, included); and the same input always gives the same value.
C21_NeverCrash ==
  dest.kind # "unset" =>
    /\ dest.kind \in {"MxPadding", "MxBorderImage"}
    /\ dest.kind = "MxPadding" =>
         \A i \in PaddingTokensRead(str) : i <= Len(g_strsplit(str, " "))
    /\ dest.kind # "MxPadding" =>
         /\ \A i \in BorderImageTokensRead(str) : i <= Len(BorderImageTokensOf(str))
         /\ Cardinality(BorderImageFromString(str, filename)) = 1

\* C22 - Quoted or bare path: for every path p and every 1 to 4 integer
\* edge tokens, the bare text url(p) e1..ek gives the same uri and the same
\* edges as the quoted text url("p") e1..ek.
C22_QuotedOrBare ==
  dest.kind # "unset" =>
    \A path \in BorderImagePaths :
      \A tokens \in SeqsUpTo(BorderImageTokens, 4) \ {<<>>} :
        str = BorderImageUrl(<<>>, path) \o Join(<<<<>>>> \o tokens, <<" ">>) =>
          \A quoted \in BorderImageFromString(
                          BorderImageUrl(<<"\"">>, path)
                            \o Join(<<<<>>>> \o tokens, <<" ">>), filename) :
            /\ dest.uri = quoted.boxed.uri
            /\ Edges(dest) = Edges(quoted.boxed)

\* the MxBorderImage without uri and with four edges 0
BorderImageEmpty(boxed) ==
  /\ boxed.kind = "MxBorderImage"
  /\ boxed.uri = NullString
  /\ Edges(boxed) = <<0, 0, 0, 0>>

\* C23 - Empty result: the text none gives the empty MxBorderImage (no uri,
\* four edges 0) whatever the file name; so does, with a warning, every text
\* whose first token is not url or that has fewer than 2 tokens; in these
\* cases the file name has no influence on the result.
C23_EmptyResult ==
  (dest.kind # "unset"
     /\ \/ str = NoneString
        \/ Len(BorderImageTokensOf(str)) < 2
        \/ BorderImageTokensOf(str)[1] # UrlString) =>
    /\ BorderImageEmpty(dest)
    /\ str = NoneString => diag = "none"
    /\ str # NoneString => diag = "g_warning: Could not parse border image"
    /\ \A file_name \in FileNames :
         BorderImageFromString(str, file_name) = {[boxed |-> dest, diag |-> diag]}
\* a text of several tokens that does not start with url was refused
C23_Witness ==
  /\ dest.kind = "MxBorderImage"
  /\ str # NoneString
  /\ Len(BorderImageTokensOf(str)) >= 6
  /\ BorderImageTokensOf(str)[1] # UrlString
  /\ diag = "g_warning: Could not parse border image"
  /\ BorderImageEmpty(dest)

\* C24 - mx_stylable_notify with a name that resolves to no pspec for the
\* type of the object, its ancestors included, warns and does nothing else:
\* nothing is dispatched, nothing is added to the pending pspecs and
\* freeze_count is as before, whether the object is frozen or not.
C24Step ==
  (last'.op = "notify" /\ last'.pspec = NULL) =>
    /\ diag' = "g_warning: no style property"
    /\ emitted' = <<>>
    /\ nqueue' = nqueue
    /\ registry' = registry
C24_NotifyUnknown == [][C24Step]_vars
\* a frozen object with a pspec pending was notified of an unknown name
C24_Witness ==
  /\ last.op = "notify"
  /\ last.pspec = NULL
  /\ diag = "g_warning: no style property"
  /\ nqueue[last.obj].freeze_count > 0
  /\ nqueue[last.obj].pspecs # <<>>

\* freeze_count of o rises by one with a freeze_notify on o, falls by one
\* with a thaw_notify on o that finds it above 0, and is left alone by every
\* other call, notify included; `limit` is the count a freeze no longer
\* raises, or -1 for none
FreezeCounts(o, limit) ==
  LET count == nqueue[o].freeze_count
      after == nqueue'[o].freeze_count
  IN  /\ after >= 0
      /\ IF last'.obj # o \/ last'.op \notin {"freeze_notify", "thaw_notify", "notify"}
           THEN after = count
         ELSE IF last'.op = "freeze_notify"
           THEN after = IF count = limit THEN count ELSE count + 1
         ELSE IF last'.op = "thaw_notify"
           THEN after = IF count > 0 THEN count - 1 ELSE count
         ELSE after = IF count = limit /\ last'.pspec # NULL THEN count - 1 ELSE count

\* C25 as claimed - after any freezes, thaws and notifies of an object its
\* freeze_count is the number of freezes minus the number of thaws that
\* found it above 0, never negative; a notify returns with the freeze_count
\* it found.
C25_Original == [][\A o \in Objects : FreezeCounts(o, 0 - 1)]_vars

\* C25 - the same while freeze_count is below 65535. A freeze that finds
\* 65535 is reported and leaves it at 65535, and a notify of a known
\* property that finds 65535 returns with 65534.
C25_FreezeDepth ==
  [][/\ \A o \in Objects : FreezeCounts(o, G_MAXUINT16)
     /\ (last'.op = "freeze_notify"
           /\ \E o \in Objects : last'.obj = o
                /\ nqueue[o].freeze_count = G_MAXUINT16) =>
          diag' = "g_critical: Free queue is larger than 65535"]_vars
\* a freeze found 65535 freezes, while the other object was frozen twice
C25_Witness ==
  /\ last.op = "freeze_notify"
  /\ last.obj = "o1"
  /\ nqueue["o1"].freeze_count = G_MAXUINT16
  /\ diag = "g_critical: Free queue is larger than 65535"
  /\ nqueue["o2"].freeze_count = 2

\* the pspecs of the notifications emitted
EmittedPSpecs(signals) == {signals[i].pspec : i \in 1..Len(signals)}

\* the pspecs pending on an object
PendingPSpecs(q) == {q.pspecs[i] : i \in 1..Len(q.pspecs)}

\* C26 - whenever a freeze, thaw or notify call returns with freeze_count 0
\* nothing is pending on the object; so what a final thaw dispatches was
\* pending before it, or is the property notified by this very call, and a
\* property dispatched once is not dispatched by a later cycle unless it is
\* notified again.
C26Step ==
  (last'.op \in {"freeze_notify", "thaw_notify", "notify"}) =>
    /\ \A o \in Objects :
         nqueue'[o].freeze_count = 0 =>
           /\ nqueue'[o].pspecs = <<>>
           /\ nqueue'[o].n_pspecs = 0
    /\ \A i \in 1..Len(emitted') : emitted'[i].obj = last'.obj
    /\ \A o \in Objects :
         last'.obj = o =>
           /\ EmittedPSpecs(emitted') \subseteq
                PendingPSpecs(nqueue[o]) \cup
                  (IF last'.op = "notify" THEN {last'.pspec} ELSE {})
           /\ emitted' # <<>> => nqueue'[o] = NoQueue
C26_EmptyWhenThawed == [][C26Step]_vars
\* the last thaw of an object has dispatched two pspecs and left no queue
C26_Witness ==
  /\ last.op = "thaw_notify"
  /\ Len(emitted) = 2
  /\ nqueue[last.obj] = NoQueue

\* the notification of pspec p of object o: detailed by the name of p and
\* carrying p
StyleNotify(o, p) ==
  [signal |-> "style-notify", obj |-> o, detail |-> pspec_name(p), pspec |-> p]

Dispatched(o, p) == \E i \in 1..Len(emitted) : emitted[i] = StyleNotify(o, p)

\* a notify of object o has found pspec p for its name
Enqueued(o, p) == last = Call("notify", o, p)

\* what is emitted or pending for the object of a call was pending before
\* the call, or is the pspec notified by it; nothing changes for the others
C27Step ==
  \A o \in Objects :
    LET now == IF last'.obj = o /\ last'.op = "notify" /\ last'.pspec # NULL
                 THEN {last'.pspec} ELSE {}
    IN  /\ PendingPSpecs(nqueue'[o]) \subseteq PendingPSpecs(nqueue[o]) \cup now
        /\ \A i \in 1..Len(emitted') :
             emitted'[i].obj = o =>
               /\ emitted'[i].pspec \in PendingPSpecs(nqueue[o]) \cup now
               /\ emitted'[i] = StyleNotify(o, emitted'[i].pspec)

\* C27 - if every freeze of an object is in the end matched by a thaw, so
\* that the object is unfrozen again and again, every notify of a known
\* property of it is followed by the dispatch of a style-notify for that
\* property, carrying its pspec and detailed by its name; and no style-notify
\* is dispatched for a property that was not notified.
C27_EventualDispatch ==
  /\ \A o \in Objects, p \in PSpecs :
       ([]<>(nqueue[o].freeze_count = 0)) => (Enqueued(o, p) ~> Dispatched(o, p))
  /\ [][C27Step]_vars
\* the thaw of an object has dispatched the pspec notified while it was
\* frozen twice
C27_Witness ==
  /\ last.op = "thaw_notify"
  /\ nqueue[last.obj] = NoQueue
  /\ Dispatched(last.obj, 3)
  /\ Len(emitted) = 2

\* every pspec of the pool is readable and has neither G_PARAM_CONSTRUCT nor
\* G_PARAM_CONSTRUCT_ONLY, and so is every pspec a lookup finds
PoolReadable ==
  /\ \A pspec \in pool :
       /\ G_PARAM_READABLE \in pspec_flags(pspec)
       /\ pspec_flags(pspec) \cap {G_PARAM_CONSTRUCT, G_PARAM_CONSTRUCT_ONLY} = {}
  /\ \A objtype \in ClassTypes, property_name \in PropertyNames :
       LET pspec == mx_stylable_find_property(objtype, property_name)
       IN  pspec # NULL => pspec \in pool

\* a get_default_value that finds a pspec for the name fills a zero-filled
\* value_out with the default of the pspec, in its type, and returns TRUE
C28Step ==
  \A o \in Objects, property_name \in PropertyNames, pspec \in PSpecs :
    (/\ last' = Call("get_default_value", o, pspec)
     /\ pspec_name(pspec) = property_name
     /\ mx_stylable_get_default_value(o, property_name, "G_TYPE_INVALID"))
    => /\ retval' = TRUE
       /\ diag' = "none"
       /\ gvalue' = [g_type |-> G_PARAM_SPEC_VALUE_TYPE(pspec), data |-> "default"]

\* C28 - after any installs and finalizes every pspec of the pool is
\* readable and neither construct nor construct-only, so neither
\* get_property nor get_default_value reports "not readable" for a pspec it
\* has looked up, and get_default_value returns the declared default for
\* every name the lookup resolves.
C28_ReadableRegistry ==
  /\ [](PoolReadable /\ diag # "g_warning: is not readable")
  /\ [][C28Step]_vars
\* the default of a property installed for an ancestor of the class of the
\* object was returned, while a pspec that is not readable stayed out of the
\* pool
C28_Witness ==
  /\ last.op = "get_default_value"
  /\ last.pspec # NULL
  /\ owner_type[last.pspec] # G_OBJECT_TYPE(last.obj)
  /\ retval = TRUE
  /\ gvalue = [g_type |-> "gchararray", data |-> "default"]
  /\ diag = "none"
  /\ pool # {}

====
